---- MODULE Spec2Model ----
(***************************************************************************)
(* vt.iterator.Iterator: the cursor-based pagination iterator of vt-py.    *)
(* One iterator instance is stepped through its four surfaces (__next__,   *)
(* __anext__, the __iter__ generator, the __aiter__ generator) against a   *)
(* paginated collection; a second instance may be constructed from the     *)
(* first one's `cursor` property.                                          *)
(***************************************************************************)
EXTENDS Integers, Sequences, FiniteSets

\* ------------------------------------------------------------- bounds
MaxPages == 2
MaxPageSize == 2
MaxLimit == 2

\* A budget of answered requests per instance, so that a step that re-fetches
\* without progress (an empty collection) cannot repeat without end.
MaxFetches == MaxPages + 1

\* The longest server cursor, and the largest offset into a page, that a
\* constructor call is tried with.
MaxTokenLen == 2
MaxOffset == 11

\* ------------------------------------------------------------- strings
\* A Python str is a sequence of one-character strings; None is a value
\* that is no such sequence.
None == <<"None">>

Truthy(s) == s # None /\ s # <<>>

Digits == <<"0", "1", "2", "3", "4", "5", "6", "7", "8", "9">>

RECURSIVE str(_)
str(n) ==
  IF n < 10 THEN <<Digits[n + 1]>>
  ELSE str(n \div 10) \o <<Digits[(n % 10) + 1]>>

DigitValue(c) == CHOOSE d \in 0..9 : Digits[d + 1] = c

IsDigit(c) == \E d \in 0..9 : Digits[d + 1] = c

RECURSIVE DecimalValue(_)
DecimalValue(s) ==
  IF Len(s) = 0 THEN 0
  ELSE 10 * DecimalValue(SubSeq(s, 1, Len(s) - 1)) + DigitValue(s[Len(s)])

\* int(text): an optional sign and then decimal digits; ok is FALSE where
\* Python raises ValueError. (Surrounding whitespace and '_' between digits,
\* which int() also accepts, are outside the alphabet of the strings here.)
int(s) ==
  LET signed == Len(s) > 0 /\ s[1] \in {"+", "-"}
      body == IF signed THEN Tail(s) ELSE s
  IN IF Len(body) > 0 /\ \A i \in 1..Len(body) : IsDigit(body[i])
     THEN [ok |-> TRUE,
           value |-> IF signed /\ s[1] = "-" THEN 0 - DecimalValue(body)
                     ELSE DecimalValue(body)]
     ELSE [ok |-> FALSE, value |-> 0]

\* The position of the first '-' of s, where LastDash takes the last one.
FirstDash(s) ==
  IF \E i \in 1..Len(s) : s[i] = "-"
  THEN CHOOSE i \in 1..Len(s) : s[i] = "-" /\ \A j \in 1..(i - 1) : s[j] # "-"
  ELSE 0

LastDash(s) ==
  IF \E i \in 1..Len(s) : s[i] = "-"
  THEN CHOOSE i \in 1..Len(s) : s[i] = "-" /\ \A j \in (i + 1)..Len(s) : s[j] # "-"
  ELSE 0

\* str.rpartition('-'): (head, sep, tail) around the last '-';
\* ('', '', s) when s holds none.
rpartition(s) ==
  LET i == LastDash(s) IN
  IF i = 0 THEN [head |-> <<>>, sep |-> <<>>, tail |-> s]
  ELSE [head |-> SubSeq(s, 1, i - 1), sep |-> <<"-">>, tail |-> SubSeq(s, i + 1, Len(s))]

\* A Python dict with str keys is a function on its set of keys.
NoParams == [k \in {} |-> <<>>]

\* d.get(k)
get(d, k) == IF k \in DOMAIN d THEN d[k] ELSE None

\* d[k] = v
put(d, k, v) == [x \in DOMAIN d \cup {k} |-> IF x = k THEN v ELSE d[x]]

\* ------------------------------------------------------------- the collection
\* pages[p] is the number of records of page p; records are numbered
\* 1..N in server order.
VARIABLES
  pages,     \* the server's collection: the size of each page
  it,        \* the fields of the iterator instance in use
  gen,       \* the generator object made by iter(it) / aiter(it), if any
  last,      \* what the latest operation on the instance returned or raised
  hist,      \* the objects the instance has produced, in order
  nfetch,    \* requests of the instance that were answered with a collection
  failed,    \* whether a request of the instance has failed
  runs,      \* generators made on the instance, counted up to 2
  since,     \* items produced since _server_cursor was last assigned
  curpage,   \* the page of the latest successful response (0: none yet)
  lastmeta,  \* meta.cursor of the latest successful response
  refilled,  \* whether line 120/129 (_batch_cursor = 0) has run on the instance
  manual,    \* whether a manual step has been invoked on the instance
  stopped,   \* whether a manual step has signaled the end on the instance
  nops,      \* operations invoked on the instance, counted up to 2
  resumed,   \* whether the instance was constructed from a predecessor's cursor
  rs,        \* what was observed of the predecessor when the instance was made
  ctor,      \* the arguments and the outcome of the latest call of Iterator(...)
  sent,      \* the requests the latest operation has issued, in order
  tasks,     \* the async tasks that share the instance: where each one stands
  race       \* what has been seen of operations of two tasks that overlap

vars == <<pages, it, gen, last, hist, nfetch, failed, runs, since, curpage,
          lastmeta, refilled, manual, stopped, nops, resumed, rs, ctor,
          sent, tasks, race>>

RECURSIVE PageStart(_)
PageStart(p) == IF p <= 1 THEN 0 ELSE PageStart(p - 1) + pages[p - 1]

NumRecords == PageStart(Len(pages) + 1)

AllRecords == [j \in 1..NumRecords |-> j]

PageData(p) ==
  IF p \in 1..Len(pages) THEN [j \in 1..pages[p] |-> PageStart(p) + j] ELSE <<>>

\* The token the server puts in meta.cursor of page p; it names page p + 1.
Tok(p) == <<"p", "-">> \o str(p)

MetaCursor(p) == IF p \in 1..(Len(pages) - 1) THEN Tok(p) ELSE None

PageOfCursor(c) ==
  IF c = None THEN 1
  ELSE IF \E p \in 1..Len(pages) : Tok(p) = c
       THEN (CHOOSE p \in 1..Len(pages) : Tok(p) = c) + 1
       ELSE Len(pages) + 1

\* Client.get_json / get_json_async for the collection's path: o is what the
\* transport does with this request.
Outcomes == {"ok", "transport", "notlist"}

get_json(params, o) ==
  LET p == PageOfCursor(get(params, "cursor")) IN
  [raised |-> o = "transport",
   data_is_list |-> o # "notlist",
   data |-> PageData(p),
   meta_cursor |-> MetaCursor(p),
   page |-> p]

\* Object.from_dict(item): the decoded object of a raw record.
from_dict(raw) == [id |-> raw]

NoItem == [id |-> 0]

\* ------------------------------------------------------------- the iterator
\* Lines 83-90: the parse of the cursor argument. No line of __init__ calls
\* the client: reqs, the requests the call has issued, is empty.
parse_cursor(s0, cursor) ==
  LET parts == rpartition(cursor)
      n == int(parts.tail)
  IN IF Truthy(cursor)
     THEN IF ~Truthy(parts.head) THEN [err |-> "ValueError", st |-> s0, reqs |-> <<>>]
          ELSE IF ~n.ok THEN [err |-> "ValueError", st |-> s0, reqs |-> <<>>]
          ELSE [err |-> "ok",
                st |-> [s0 EXCEPT !.server_cursor = parts.head,
                                  !.batch_cursor = n.value],
                reqs |-> <<>>]
     ELSE [err |-> "ok", st |-> s0, reqs |-> <<>>]

\* __init__ without the two checks of the keys of params.
__init___unchecked(params, cursor, limit, batch_size) ==
  parse_cursor([params |-> params, items |-> <<>>, count |-> 0,
                server_cursor |-> None, batch_cursor |-> 0, limit |-> limit,
                batch_size |-> batch_size], cursor)

\* Iterator.__init__: limit 0 stands for limit=None (both are falsy), and
\* NoParams for params=None (self._params = params or {}).
__init__(params, cursor, limit, batch_size) ==
  LET s0 == [params |-> params, items |-> <<>>, count |-> 0,
             server_cursor |-> None, batch_cursor |-> 0, limit |-> limit,
             batch_size |-> batch_size]
  IN IF "cursor" \in DOMAIN params THEN [err |-> "ValueError", st |-> s0, reqs |-> <<>>]
     ELSE IF "limit" \in DOMAIN params THEN [err |-> "ValueError", st |-> s0, reqs |-> <<>>]
     ELSE parse_cursor(s0, cursor)

\* _build_params that never adds the 'cursor' key.
_build_params_no_cursor(s) ==
  IF s.batch_size # 0 THEN put(s.params, "limit", s.batch_size) ELSE s.params

_build_params(s) ==
  LET params == s.params
      with_cursor == IF Truthy(s.server_cursor)
                     THEN put(params, "cursor", s.server_cursor) ELSE params
  IN IF s.batch_size # 0 THEN put(with_cursor, "limit", s.batch_size)
     ELSE with_cursor

_parse_response(json_resp, batch_cursor) ==
  IF ~json_resp.data_is_list
  THEN [err |-> "ValueError", items |-> <<>>, cursor |-> None]
  ELSE [err |-> "ok",
        items |-> SubSeq(json_resp.data, batch_cursor + 1, Len(json_resp.data)),
        cursor |-> json_resp.meta_cursor]

\* The default of the batch_cursor parameter of _get_batch/_get_batch_async;
\* every call in the class leaves the parameter out.
batch_cursor_default == 0

RequestOf(params, json_resp, parsed) ==
  [params |-> params, page |-> json_resp.page, err |-> parsed.err,
   meta |-> parsed.cursor]

_get_batch(s, o, batch_cursor) ==
  LET params == _build_params(s)
      json_resp == get_json(params, o)
      parsed == IF json_resp.raised
                THEN [err |-> "TransportError", items |-> <<>>, cursor |-> None]
                ELSE _parse_response(json_resp, batch_cursor)
  IN [err |-> parsed.err, items |-> parsed.items, cursor |-> parsed.cursor,
      req |-> RequestOf(params, json_resp, parsed)]

_get_batch_async(s, o, batch_cursor) ==
  LET params == _build_params(s)
      json_resp == get_json(params, o)
      parsed == IF json_resp.raised
                THEN [err |-> "TransportError", items |-> <<>>, cursor |-> None]
                ELSE _parse_response(json_resp, batch_cursor)
  IN [err |-> parsed.err, items |-> parsed.items, cursor |-> parsed.cursor,
      req |-> RequestOf(params, json_resp, parsed)]

\* assign_batch with the buffer and the cursor replaced before the fetch is
\* known to have succeeded.
assign_batch_before_check(s, b) ==
  [s EXCEPT !.items = b.items, !.server_cursor = b.cursor]

\* self._items, self._server_cursor = <batch>: the call raises before the
\* assignment when the fetch fails.
assign_batch(s, b) ==
  IF b.err # "ok" THEN s
  ELSE [s EXCEPT !.items = b.items, !.server_cursor = b.cursor]

\* refill without the reset of _batch_cursor.
refill_keeps_offset(s, b) ==
  IF b.err # "ok" THEN s ELSE assign_batch(s, b)

\* Lines 119-120 (128-129): the assignment, then self._batch_cursor = 0.
refill(s, b) ==
  IF b.err # "ok" THEN s
  ELSE [assign_batch(s, b) EXCEPT !.batch_cursor = 0]

\* pop_item that leaves the record it returns at the head of the buffer.
pop_item_keeps_head(s, reqs, reset) ==
  IF Len(s.items) = 0
  THEN [st |-> s, kind |-> "IndexError", item |-> NoItem, reqs |-> reqs,
        refilled |-> reset]
  ELSE [st |-> [s EXCEPT !.count = s.count + 1,
                         !.batch_cursor = s.batch_cursor + 1],
        kind |-> "item", item |-> from_dict(Head(s.items)), reqs |-> reqs,
        refilled |-> reset]

Result(s, kind, item, reqs, reset) ==
  [st |-> s, kind |-> kind, item |-> item, reqs |-> reqs, refilled |-> reset]

\* item = self._items.pop(0); self._count += 1; self._batch_cursor += 1;
\* return Object.from_dict(item). pop(0) of an empty list raises IndexError.
pop_item(s, reqs, reset) ==
  IF Len(s.items) = 0 THEN Result(s, "IndexError", NoItem, reqs, reset)
  ELSE Result([s EXCEPT !.items = Tail(s.items),
                        !.count = s.count + 1,
                        !.batch_cursor = s.batch_cursor + 1],
              "item", from_dict(Head(s.items)), reqs, reset)

_iterate(s, o) ==
  IF Len(s.items) = 0
  THEN LET b == _get_batch(s, o, batch_cursor_default) IN
       IF b.err # "ok" THEN Result(refill(s, b), b.err, NoItem, <<b.req>>, FALSE)
       ELSE pop_item(refill(s, b), <<b.req>>, TRUE)
  ELSE pop_item(s, <<>>, FALSE)

\* _aiterate without the reset of _batch_cursor after its refill.
_aiterate_keeps_offset(s, o) ==
  IF Len(s.items) = 0
  THEN LET b == _get_batch_async(s, o, batch_cursor_default) IN
       IF b.err # "ok" THEN Result(s, b.err, NoItem, <<b.req>>, FALSE)
       ELSE pop_item(assign_batch(s, b), <<b.req>>, TRUE)
  ELSE pop_item(s, <<>>, FALSE)

_aiterate(s, o) ==
  IF Len(s.items) = 0
  THEN LET b == _get_batch_async(s, o, batch_cursor_default) IN
       IF b.err # "ok" THEN Result(refill(s, b), b.err, NoItem, <<b.req>>, FALSE)
       ELSE pop_item(refill(s, b), <<b.req>>, TRUE)
  ELSE pop_item(s, <<>>, FALSE)

\* "iter called before next" / "next is called before iter"
needs_seed(s) == Len(s.items) = 0 /\ s.count = 0

\* iter_continues that looks at the buffer only, not at the server cursor.
iter_continues_buffer_only(s) ==
  IF s.limit # 0
  THEN Len(s.items) # 0 /\ s.count < s.limit
  ELSE Len(s.items) # 0

\* iter_continues without the test of the limit.
iter_continues_ignores_limit(s) ==
  Len(s.items) # 0 \/ Truthy(s.server_cursor)

\* iter_continues with the limit compared by <=.
iter_continues_off_by_one(s) ==
  IF s.limit # 0
  THEN (Len(s.items) # 0 \/ Truthy(s.server_cursor)) /\ s.count <= s.limit
  ELSE Len(s.items) # 0 \/ Truthy(s.server_cursor)

\* The while conditions of __iter__ and __aiter__.
iter_continues(s) ==
  IF s.limit # 0
  THEN (Len(s.items) # 0 \/ Truthy(s.server_cursor)) /\ s.count < s.limit
  ELSE Len(s.items) # 0 \/ Truthy(s.server_cursor)

\* next_stops without the test of the limit.
next_stops_ignores_limit(s) ==
  Len(s.items) = 0 /\ s.count > 0

\* The conditions under which __next__ and __anext__ raise their end signal.
next_stops(s) ==
  IF s.limit # 0
  THEN (Len(s.items) = 0 /\ s.count > 0) \/ s.count >= s.limit
  ELSE Len(s.items) = 0 /\ s.count > 0

\* One resumption of the generator __iter__ returns: pos is "start" for a
\* generator that has not run yet, "yield" for one suspended at its yield.
\* o1 and o2 are the outcomes of the first and second request of the step.
__iter__(s, pos, o1, o2) ==
  LET seed == pos = "start" /\ needs_seed(s)
      b == _get_batch(s, o1, batch_cursor_default)
      s1 == IF seed THEN assign_batch(s, b) ELSE s
      reqs == IF seed THEN <<b.req>> ELSE <<>>
      r == _iterate(s1, IF seed THEN o2 ELSE o1)
  IN IF seed /\ b.err # "ok" THEN Result(s1, b.err, NoItem, reqs, FALSE)
     ELSE IF iter_continues(s1) THEN [r EXCEPT !.reqs = reqs \o r.reqs]
     ELSE Result(s1, "return", NoItem, reqs, FALSE)

__aiter__(s, pos, o1, o2) ==
  LET seed == pos = "start" /\ needs_seed(s)
      b == _get_batch_async(s, o1, batch_cursor_default)
      s1 == IF seed THEN assign_batch(s, b) ELSE s
      reqs == IF seed THEN <<b.req>> ELSE <<>>
      r == _aiterate(s1, IF seed THEN o2 ELSE o1)
  IN IF seed /\ b.err # "ok" THEN Result(s1, b.err, NoItem, reqs, FALSE)
     ELSE IF iter_continues(s1) THEN [r EXCEPT !.reqs = reqs \o r.reqs]
     ELSE Result(s1, "return", NoItem, reqs, FALSE)

__next__(s, o) ==
  LET seed == needs_seed(s)
      b == _get_batch(s, o, batch_cursor_default)
      s1 == IF seed THEN assign_batch(s, b) ELSE s
      reqs == IF seed THEN <<b.req>> ELSE <<>>
  IN IF seed /\ b.err # "ok" THEN Result(s1, b.err, NoItem, reqs, FALSE)
     ELSE IF next_stops(s1) THEN Result(s1, "StopIteration", NoItem, reqs, FALSE)
     ELSE pop_item(s1, reqs, FALSE)

__anext__(s, o) ==
  LET seed == needs_seed(s)
      b == _get_batch_async(s, o, batch_cursor_default)
      s1 == IF seed THEN assign_batch(s, b) ELSE s
      reqs == IF seed THEN <<b.req>> ELSE <<>>
  IN IF seed /\ b.err # "ok" THEN Result(s1, b.err, NoItem, reqs, FALSE)
     ELSE IF next_stops(s1) THEN Result(s1, "StopAsyncIteration", NoItem, reqs, FALSE)
     ELSE pop_item(s1, reqs, FALSE)

\* The cursor property.
cursor(s) ==
  IF ~Truthy(s.server_cursor) THEN None
  ELSE s.server_cursor \o <<"-">> \o str(s.batch_cursor)

\* ------------------------------------------------------------- the state machine
Limits == 0..MaxLimit

\* The params argument: none, or one filter of the collection.
QueryParams == {NoParams, put(NoParams, "filter", <<"a">>)}

BatchSizes == {0, MaxPageSize}

\* The optional arguments an instance is made with: params and batch_size
\* both left out, or both given.
Configs ==
  {c \in [params : QueryParams, batch_size : BatchSizes] :
     (c.params = NoParams) = (c.batch_size = 0)}

\* The collections: the empty one (a single page without records), and every
\* split of records over 1..MaxPages pages of 1..MaxPageSize records. The
\* last page carries no meta.cursor.
Layouts ==
  {<<0>>} \cup UNION {[1..n -> 1..MaxPageSize] : n \in 1..MaxPages}

NoGen == [pos |-> "none", async |-> FALSE]

NoResume == [from |-> None, expect |-> [kind |-> "none", item |-> NoItem],
             page |-> 0, offset |-> 0, count |-> 0]

\* No call of Iterator(...) is being looked at.
NoCtor == [phase |-> "none"]

\* The async tasks: a task is idle, or suspended at the await of a fetch
\* (pc names the await, params is what the request was sent with); pos is
\* where the task's own async generator stands, got what the task was
\* given, behind whether the page the task waits for was installed by
\* another task in the meantime.
Tasks == {1, 2}

Idle == [pc |-> "idle", params |-> NoParams, pos |-> "none", got |-> {},
         behind |-> FALSE]

\* No async task shares the instance.
NoTasks == <<>>

NoRace == [overlapped |-> FALSE, same_page |-> FALSE, replaced |-> FALSE]

IsManual(op) == op \in {"next", "anext"}

IsEnd(kind) == kind \in {"StopIteration", "StopAsyncIteration"}

IsError(kind) == kind \in {"TransportError", "ValueError"}

OkReqs(reqs) == {i \in 1..Len(reqs) : reqs[i].err = "ok"}

LastOk(reqs) == CHOOSE i \in OkReqs(reqs) : \A j \in OkReqs(reqs) : j <= i

One(b) == IF b THEN 1 ELSE 0

Init ==
  /\ pages \in Layouts
  /\ \E cfg \in Configs, lim \in Limits :
       it = __init__(cfg.params, None, lim, cfg.batch_size).st
  /\ gen = NoGen
  /\ last = [op |-> "init", kind |-> "ok", item |-> NoItem]
  /\ hist = <<>>
  /\ nfetch = 0
  /\ failed = FALSE
  /\ runs = 0
  /\ since = 0
  /\ curpage = 0
  /\ lastmeta = None
  /\ refilled = FALSE
  /\ manual = FALSE
  /\ stopped = FALSE
  /\ nops = 0
  /\ resumed = FALSE
  /\ rs = NoResume
  /\ ctor = NoCtor
  /\ sent = <<>>
  /\ tasks = NoTasks
  /\ race = NoRace

\* What an operation that returned r leaves behind.
Observe(op, r) ==
  /\ nfetch + Cardinality(OkReqs(r.reqs)) <= MaxFetches
  /\ it' = r.st
  /\ last' = [op |-> op, kind |-> r.kind, item |-> r.item]
  /\ hist' = IF r.kind = "item" THEN Append(hist, r.item) ELSE hist
  /\ nfetch' = nfetch + Cardinality(OkReqs(r.reqs))
  /\ failed' = (failed \/ Cardinality(OkReqs(r.reqs)) < Len(r.reqs))
  /\ since' = (IF OkReqs(r.reqs) # {} THEN 0 ELSE since) + One(r.kind = "item")
  /\ curpage' = IF OkReqs(r.reqs) # {} THEN r.reqs[LastOk(r.reqs)].page ELSE curpage
  /\ lastmeta' = IF OkReqs(r.reqs) # {} THEN r.reqs[LastOk(r.reqs)].meta ELSE lastmeta
  /\ refilled' = (refilled \/ r.refilled)
  /\ manual' = (manual \/ IsManual(op))
  /\ stopped' = (stopped \/ (IsManual(op) /\ IsEnd(r.kind)))
  /\ nops' = IF nops < 2 THEN nops + 1 ELSE 2
  /\ sent' = r.reqs
  /\ UNCHANGED <<pages, resumed, rs, ctor, tasks, race>>

\* The outcomes to choose from for the requests of a step: a request that
\* the step cannot issue needs no choice. A manual step issues a request only
\* to seed; a generator step issues one to seed or to refill an empty buffer,
\* and a second one only after a first one that seeded the instance. The
\* transport fails at most one request of an instance: a failed request
\* leaves the fields of the instance as they were.
ManualOutcomes(s) == IF needs_seed(s) /\ ~failed THEN Outcomes ELSE {"ok"}

FirstOutcomes(pos, s) ==
  IF Len(s.items) = 0 /\ ~failed THEN Outcomes ELSE {"ok"}

SecondOutcomes(pos, s) ==
  IF pos = "start" /\ needs_seed(s) /\ ~failed THEN Outcomes ELSE {"ok"}

\* next(it)
Next_ ==
  \E o \in ManualOutcomes(it) :
    /\ Observe("next", __next__(it, o))
    /\ UNCHANGED <<gen, runs>>

\* await it.__anext__()
ANext ==
  \E o \in ManualOutcomes(it) :
    /\ Observe("anext", __anext__(it, o))
    /\ UNCHANGED <<gen, runs>>

\* iter(it): a new generator object; none of its code has run yet.
Iter ==
  /\ gen' = [pos |-> "start", async |-> FALSE]
  /\ runs' = IF runs < 2 THEN runs + 1 ELSE 2
  /\ sent' = <<>>
  /\ UNCHANGED <<pages, it, last, hist, nfetch, failed, since, curpage, lastmeta,
                 refilled, manual, stopped, nops, resumed, rs, ctor, tasks, race>>

\* aiter(it)
AIter ==
  /\ gen' = [pos |-> "start", async |-> TRUE]
  /\ runs' = IF runs < 2 THEN runs + 1 ELSE 2
  /\ sent' = <<>>
  /\ UNCHANGED <<pages, it, last, hist, nfetch, failed, since, curpage, lastmeta,
                 refilled, manual, stopped, nops, resumed, rs, ctor, tasks, race>>

\* next(g) on the generator of __iter__: it runs to its next yield, returns,
\* or lets an exception out; a generator that returned or raised is closed.
GenStep ==
  /\ gen.pos \in {"start", "yield"}
  /\ ~gen.async
  /\ \E o1 \in FirstOutcomes(gen.pos, it), o2 \in SecondOutcomes(gen.pos, it) :
       LET r == __iter__(it, gen.pos, o1, o2) IN
       /\ Observe("iter", r)
       /\ gen' = [gen EXCEPT !.pos = IF r.kind = "item" THEN "yield" ELSE "closed"]
  /\ UNCHANGED runs

\* await g.__anext__() on the generator of __aiter__
AGenStep ==
  /\ gen.pos \in {"start", "yield"}
  /\ gen.async
  /\ \E o1 \in FirstOutcomes(gen.pos, it), o2 \in SecondOutcomes(gen.pos, it) :
       LET r == __aiter__(it, gen.pos, o1, o2) IN
       /\ Observe("aiter", r)
       /\ gen' = [gen EXCEPT !.pos = IF r.kind = "item" THEN "yield" ELSE "closed"]
  /\ UNCHANGED runs

\* Iterator(client, path, cursor=it.cursor, limit=<the same>,
\* batch_size=<the same>): the new instance takes the place of the old one,
\* which is not used again (instances share no state).
Resume ==
  /\ ~resumed
  /\ LET made == __init__(it.params, cursor(it), it.limit, it.batch_size)
         would == __next__(it, "ok")
     IN /\ made.err = "ok"
        /\ it' = made.st
        /\ sent' = made.reqs
        /\ rs' = [from |-> cursor(it),
                  expect |-> [kind |-> would.kind, item |-> would.item],
                  page |-> curpage, offset |-> it.batch_cursor,
                  count |-> it.count]
  /\ resumed' = TRUE
  /\ gen' = NoGen
  /\ last' = [op |-> "init", kind |-> "ok", item |-> NoItem]
  /\ hist' = <<>>
  /\ nfetch' = 0
  /\ failed' = FALSE
  /\ runs' = 0
  /\ since' = 0
  /\ curpage' = 0
  /\ lastmeta' = None
  /\ refilled' = FALSE
  /\ manual' = FALSE
  /\ stopped' = FALSE
  /\ nops' = 0
  /\ UNCHANGED <<pages, ctor, tasks, race>>

Next == Next_ \/ ANext \/ Iter \/ AIter \/ GenStep \/ AGenStep \/ Resume

Spec == Init /\ [][Next]_vars

\* ------------------------------------------------------------- construction
\* Calls of Iterator(...) on their own: the cursor argument is the value of
\* the cursor property of an instance, or a string the caller supplies.
Alphabet == {"a", "7", "-", "+"}

Strings(n) == UNION {[1..k -> Alphabet] : k \in 0..n}

\* meta.cursor is an opaque non-empty string.
ServerCursors == Strings(MaxTokenLen) \ {<<>>}

CursorArgs == Strings(MaxTokenLen + 1) \cup {None}

\* The params argument of a call: query params of the collection, with or
\* without one of the keys the class reserves.
ParamArgs ==
  QueryParams
    \cup {put(ps, "cursor", <<"a">>) : ps \in QueryParams}
    \cup {put(ps, "limit", MaxPageSize) : ps \in QueryParams}

\* An instance that has consumed n records of the page it holds, fetched
\* with a response whose meta.cursor was sc (None: the last page).
Consumed(sc, n) ==
  [__init__(NoParams, None, 0, 0).st EXCEPT !.server_cursor = sc, !.count = n,
                                  !.batch_cursor = n]

InitCtor ==
  /\ pages = <<0>>
  /\ \E sc \in ServerCursors \cup {None}, n \in 0..MaxOffset : it = Consumed(sc, n)
  /\ gen = NoGen
  /\ last = [op |-> "init", kind |-> "ok", item |-> NoItem]
  /\ hist = <<>>
  /\ nfetch = 0
  /\ failed = FALSE
  /\ runs = 0
  /\ since = 0
  /\ curpage = 0
  /\ lastmeta = None
  /\ refilled = FALSE
  /\ manual = FALSE
  /\ stopped = FALSE
  /\ nops = 0
  /\ resumed = FALSE
  /\ rs = NoResume
  /\ ctor = [phase |-> "start"]
  /\ sent = <<>>
  /\ tasks = NoTasks
  /\ race = NoRace

\* What a call Iterator(client, path, params=ps, cursor=c) that returned or
\* raised `made` leaves behind: the new instance where it returned, and of the
\* instance whose cursor property was read, the two fields the property reads.
Constructed(from, ps, c, made) ==
  /\ ctor' = [phase |-> "made", from |-> from, params |-> ps, cursor |-> c,
              err |-> made.err, reqs |-> made.reqs,
              prev |-> IF from = "property"
                       THEN [server_cursor |-> it.server_cursor,
                             batch_cursor |-> it.batch_cursor]
                       ELSE [server_cursor |-> None, batch_cursor |-> 0]]
  /\ it' = made.st
  /\ sent' = made.reqs
  /\ UNCHANGED <<pages, gen, last, hist, nfetch, failed, runs, since, curpage,
                 lastmeta, refilled, manual, stopped, nops, resumed, rs, tasks,
                 race>>

\* Iterator(client, path, cursor=it.cursor)
ConstructFromProperty ==
  /\ ctor.phase = "start"
  /\ Constructed("property", it.params, cursor(it),
                 __init__(it.params, cursor(it), it.limit, it.batch_size))

\* Iterator(client, path, params=<a dict of the caller's>,
\*          cursor=<a string of the caller's>)
ConstructFromCaller ==
  /\ ctor.phase = "start"
  /\ \E ps \in ParamArgs, c \in CursorArgs :
       Constructed("caller", ps, c, __init__(ps, c, 0, 0))

NextCtor == ConstructFromProperty \/ ConstructFromCaller

SpecCtor == InitCtor /\ [][NextCtor]_vars

\* ------------------------------------------------------------- async tasks
\* A coroutine runs from one await of the transport to the next without
\* giving up control; at `await self._client.get_json_async(...)` it has
\* sent the request (the params are built in the call) and is suspended
\* until the response is there.
Await(s, pc) ==
  [st |-> s, kind |-> "await", item |-> NoItem, pc |-> pc,
   params |-> _build_params(s)]

Done(r) ==
  [st |-> r.st, kind |-> r.kind, item |-> r.item, pc |-> "idle",
   params |-> NoParams]

\* __anext__ from the test of the limit on (lines 170-179).
anext_rest(s) ==
  Done(IF next_stops(s) THEN Result(s, "StopAsyncIteration", NoItem, <<>>, FALSE)
       ELSE pop_item(s, <<>>, FALSE))

\* __anext__ from its entry to its first await or its end.
anext_enter(s) ==
  IF needs_seed(s) THEN Await(s, "seed_anext") ELSE anext_rest(s)

\* __aiter__ from the test of its while loop to a yield, to the await
\* inside _aiterate, or to its return.
aiter_loop(s) ==
  IF ~iter_continues(s) THEN Done(Result(s, "return", NoItem, <<>>, FALSE))
  ELSE IF Len(s.items) = 0 THEN Await(s, "refill")
  ELSE Done(pop_item(s, <<>>, FALSE))

\* aiter_enter of a generator that seeds whenever it starts, whatever the
\* instance holds.
aiter_enter_always_seeds(s, pos) ==
  IF pos = "start" THEN Await(s, "seed_aiter") ELSE aiter_loop(s)

\* One resumption of the generator of __aiter__, up to its first await.
aiter_enter(s, pos) ==
  IF pos = "start" /\ needs_seed(s) THEN Await(s, "seed_aiter") ELSE aiter_loop(s)

\* _get_batch_async after its await: the response to the request that was
\* sent with `params`.
receive_batch(params, o, batch_cursor) ==
  LET json_resp == get_json(params, o)
      parsed == IF json_resp.raised
                THEN [err |-> "TransportError", items |-> <<>>, cursor |-> None]
                ELSE _parse_response(json_resp, batch_cursor)
  IN [err |-> parsed.err, items |-> parsed.items, cursor |-> parsed.cursor,
      req |-> RequestOf(params, json_resp, parsed)]

\* The coroutine suspended at pc goes on with the response.
wake(s, pc, params, o) ==
  LET b == receive_batch(params, o, batch_cursor_default) IN
  IF b.err # "ok" THEN Done(Result(s, b.err, NoItem, <<>>, FALSE))
  ELSE IF pc = "seed_anext" THEN anext_rest(assign_batch(s, b))
  ELSE IF pc = "seed_aiter" THEN aiter_loop(assign_batch(s, b))
  ELSE Done(pop_item(refill(s, b), <<>>, TRUE))

\* Where a generator stands after a step of its code.
GenPos(kind) ==
  IF kind = "item" THEN "yield" ELSE IF kind = "await" THEN "running" ELSE "closed"

PageAsked(params) == PageOfCursor(get(params, "cursor"))

Pending(t) == tasks[t].pc # "idle"

InitAsync ==
  /\ pages \in Layouts
  /\ \E lim \in Limits : it = __init__(NoParams, None, lim, 0).st
  /\ gen = NoGen
  /\ last = [op |-> "init", kind |-> "ok", item |-> NoItem]
  /\ hist = <<>>
  /\ nfetch = 0
  /\ failed = FALSE
  /\ runs = 0
  /\ since = 0
  /\ curpage = 0
  /\ lastmeta = None
  /\ refilled = FALSE
  /\ manual = FALSE
  /\ stopped = FALSE
  /\ nops = 0
  /\ resumed = FALSE
  /\ rs = NoResume
  /\ ctor = NoCtor
  /\ sent = <<>>
  /\ tasks = [t \in Tasks |-> Idle]
  /\ race = NoRace

NoDuplicates(seq) == \A i, j \in 1..Len(seq) : seq[i] = seq[j] => i = j

\* Task t has run up to r: r.kind is "await" where it is suspended again.
\* installed tells whether the step has assigned a response to the buffer,
\* entering whether it is the start of an operation. The tasks are followed
\* up to the first record that is produced a second time.
Ran(t, r, pos, installed, entering) ==
  LET mine == [pc |-> r.pc, params |-> r.params, pos |-> pos,
               got |-> IF r.kind = "item" THEN tasks[t].got \cup {r.item}
                       ELSE tasks[t].got,
               behind |-> FALSE]
      other(u) == [tasks[u] EXCEPT
                     !.behind = @ \/ (/\ installed
                                      /\ Pending(u)
                                      /\ PageAsked(tasks[u].params)
                                           = PageAsked(tasks[t].params))]
      after == [u \in Tasks |-> IF u = t THEN mine ELSE other(u)]
  IN /\ NoDuplicates(hist)
     /\ it' = r.st
     /\ hist' = IF r.kind = "item" THEN Append(hist, r.item) ELSE hist
     /\ tasks' = after
     /\ race' = [overlapped |-> race.overlapped
                                \/ (entering /\ \E u \in Tasks \ {t} : Pending(u)),
                 same_page |-> race.same_page
                                \/ (/\ \A u \in Tasks : after[u].pc # "idle"
                                    /\ \A u, v \in Tasks : PageAsked(after[u].params)
                                                            = PageAsked(after[v].params)),
                 replaced |-> race.replaced \/ (installed /\ tasks[t].behind)]
     /\ UNCHANGED <<pages, gen, last, nfetch, failed, runs, since, curpage,
                    lastmeta, refilled, manual, stopped, nops, resumed, rs,
                    ctor, sent>>

\* Task t: await it.__anext__()
TaskANext ==
  \E t \in Tasks :
    /\ ~Pending(t)
    /\ Ran(t, anext_enter(it), tasks[t].pos, FALSE, TRUE)

\* Task t: one step of `async for ... in it`: a step of the task's own async
\* generator, made by aiter(it) where the task has none that is running.
TaskAGen ==
  \E t \in Tasks :
    /\ ~Pending(t)
    /\ LET pos == IF tasks[t].pos = "yield" THEN "yield" ELSE "start"
           r == aiter_enter(it, pos)
       IN Ran(t, r, GenPos(r.kind), FALSE, TRUE)

\* The response to the request of a suspended task is there, and the task
\* goes on.
TaskWake ==
  \E t \in Tasks, o \in Outcomes :
    /\ Pending(t)
    /\ LET r == wake(it, tasks[t].pc, tasks[t].params, o) IN
       Ran(t, r,
           IF tasks[t].pc = "seed_anext" THEN tasks[t].pos ELSE GenPos(r.kind),
           o = "ok", FALSE)

NextAsync == TaskANext \/ TaskAGen \/ TaskWake

SpecAsync == InitAsync /\ [][NextAsync]_vars

\* ------------------------------------------------------------- observations
Objects(records) == [j \in 1..Len(records) |-> from_dict(records[j])]

IsPrefix(a, b) == Len(a) <= Len(b) /\ SubSeq(b, 1, Len(a)) = a

Min(a, b) == IF a <= b THEN a ELSE b

\* The latest operation was the first one invoked on the instance, it was a
\* manual step, and its request was answered.
FirstManualStep == nops = 1 /\ IsManual(last.op) /\ ~failed

\* Only full-sequence production has been used on a fresh instance, and the
\* generator has just returned.
FullSequenceDone ==
  /\ ~resumed
  /\ ~manual
  /\ last.op \in {"iter", "aiter"}
  /\ last.kind = "return"

\* ------------------------------------------------------------- C1
\* C1: cursor round-trip. An instance B constructed with the value of A's
\* cursor property returns, at its first manual step, the record that A's
\* next manual step would have returned; and when A's cursor is None, B is
\* constructed exactly as a fresh instance is.
C1_CursorRoundTrip ==
  /\ (resumed /\ FirstManualStep /\ rs.expect.kind = "item")
       => (last.kind = "item" /\ last.item = rs.expect.item)
  /\ (resumed /\ nops = 0 /\ rs.from = None)
       => it = __init__(it.params, None, it.limit, it.batch_size).st

\* ------------------------------------------------------------- C2
\* C2: with no limit, full-sequence production (blocking or async) on a fresh
\* instance yields the records of every page exactly once and in server
\* order (what it has produced is always a prefix of the collection, and the
\* whole collection once the generator returns), and a single uninterrupted
\* run issues exactly one request per page.
C2_CompleteInOrder ==
  /\ (~resumed /\ ~manual /\ it.limit = 0) => IsPrefix(hist, Objects(AllRecords))
  /\ (FullSequenceDone /\ it.limit = 0) => hist = Objects(AllRecords)
  /\ (FullSequenceDone /\ it.limit = 0 /\ runs = 1 /\ ~failed)
       => nfetch = Len(pages)

\* A collection of two pages, of 2 records and then 1, read to its end in
\* one run with two requests.
C2_Witness ==
  /\ FullSequenceDone
  /\ it.limit = 0
  /\ pages = <<2, 1>>
  /\ runs = 1
  /\ ~failed
  /\ Len(hist) = 3
  /\ nfetch = 2

\* ------------------------------------------------------------- C3
\* C3: with limit L >= 1, full-sequence production (blocking or async) run
\* to completion on a fresh instance has yielded exactly min(L, N) items of
\* a collection of N records.
C3_LimitFullSequence ==
  (FullSequenceDone /\ it.limit >= 1)
    => Len(hist) = Min(it.limit, NumRecords)

\* The limit cuts the sequence inside the second page.
C3_Witness ==
  /\ FullSequenceDone
  /\ it.limit = 2
  /\ pages = <<1, 2>>
  /\ Len(hist) = 2
  /\ Len(it.items) = 1

\* ------------------------------------------------------------- C4
\* C4: with limit L >= 1 on a collection of at least L records, the first L
\* manual steps of a fresh instance each return an item and the (L+1)-th is
\* the first to signal the end: a manual step that signals the end has L
\* items behind it.
C4_LimitManualStep ==
  (~resumed /\ runs = 0 /\ ~failed /\ IsManual(last.op)
     /\ it.limit >= 1 /\ NumRecords >= it.limit)
    => /\ last.kind = "item" \/ IsEnd(last.kind)
       /\ IsEnd(last.kind) => it.count = it.limit
       /\ last.kind = "item" => it.count <= it.limit

\* ------------------------------------------------------------- C5
\* C5: an instance constructed from a resumption cursor with offset n
\* re-fetches the page its predecessor was consuming and skips the first n
\* records of it: record n+1 of that page is the first item it produces.
C5_MidPageResume ==
  (resumed /\ rs.from # None /\ FirstManualStep /\ rs.page \in 1..Len(pages)
     /\ rs.offset < pages[rs.page])
    => /\ curpage = rs.page
       /\ last.kind = "item"
       /\ last.item = from_dict(PageStart(rs.page) + rs.offset + 1)

\* ------------------------------------------------------------- C6
\* C6: the cursor property is None on a fresh instance before any fetch, and
\* after the sequence has been exhausted it is not None: it ends in '-' and
\* the final offset into the last page.
C6_CursorLifecycle ==
  /\ (~resumed /\ nops = 0) => cursor(it) = None
  /\ (~resumed /\ NumRecords > 0 /\ hist = Objects(AllRecords))
       => /\ cursor(it) # None
          /\ rpartition(cursor(it)).tail = str(pages[Len(pages)])

C8_ManualEndOnlyAtEnd ==
  (IsManual(last.op) /\ IsEnd(last.kind))
    => \/ (Len(it.items) = 0 /\ ~Truthy(it.server_cursor))
       \/ (it.limit # 0 /\ it.count >= it.limit)

Carry == IF resumed /\ ~refilled /\ rs.from # None THEN rs.offset ELSE 0

C10_EndIsTerminal ==
  (stopped /\ IsManual(last.op)) => IsEnd(last.kind)

\* ------------------------------------------------------------- C11
\* The signal a step ends with, the same for StopIteration and
\* StopAsyncIteration.
SignalOf(kind) == IF IsEnd(kind) THEN "EndOfSequence" ELSE kind

\* The answers of the transport to tell apart for a request of a step:
\* all of them where the step issues the request, one where it does not.
AnswersTo(issued) == IF issued THEN Outcomes ELSE {"ok"}

\* The positions of a generator to tell apart: where it stands matters to
\* its code only in the test for the seeding fetch.
PositionsApart(s) == IF needs_seed(s) THEN {"start", "yield"} ELSE {"yield"}

SameStep(a, b) ==
  /\ a.st = b.st
  /\ a.item = b.item
  /\ a.reqs = b.reqs
  /\ SignalOf(a.kind) = SignalOf(b.kind)

\* C11: in every state the instance can be in, and for every answer of the
\* transport, a blocking operation and its async counterpart issue the same
\* requests, return the same item or the same error or end signal, and leave
\* the same fields behind: __next__ and __anext__, and a resumption of the
\* generator of __iter__ and of __aiter__.
C11_SyncAsyncSame ==
  [](/\ \A o \in AnswersTo(needs_seed(it)) :
          SameStep(__next__(it, o), __anext__(it, o))
     /\ \A pos \in PositionsApart(it) :
          \A o1 \in AnswersTo(Len(it.items) = 0),
             o2 \in AnswersTo(pos = "start" /\ needs_seed(it)) :
            SameStep(__iter__(it, pos, o1, o2), __aiter__(it, pos, o1, o2)))

\* The async generator has refilled the buffer from the second page, where
\* the blocking generator would do the same.
C11_Witness ==
  /\ last.op = "aiter"
  /\ last.kind = "item"
  /\ curpage = 2
  /\ refilled
  /\ it.count = pages[1] + 1
  /\ __iter__(it, "yield", "ok", "ok").kind = __aiter__(it, "yield", "ok", "ok").kind

\* ------------------------------------------------------------- C12
\* C12: for every non-empty server cursor s (one that holds '-' characters
\* included) and every offset n >= 0, the string the cursor property makes
\* of (s, n) is accepted by the constructor and parsed back to
\* _server_cursor = s and _batch_cursor = n; and whatever cursor string the
\* constructor accepts, the _batch_cursor it parses is never negative.
C12_CursorStringRoundTrip ==
  /\ (ctor.phase = "made" /\ ctor.from = "property"
        /\ Truthy(ctor.prev.server_cursor))
       => /\ ctor.err = "ok"
          /\ it.server_cursor = ctor.prev.server_cursor
          /\ it.batch_cursor = ctor.prev.batch_cursor
  /\ (ctor.phase = "made" /\ ctor.err = "ok") => it.batch_cursor >= 0

\* The server cursor "a-" and the two-digit offset 10: the string "a--10".
C12_Witness ==
  /\ ctor.phase = "made"
  /\ ctor.from = "property"
  /\ ctor.cursor = <<"a", "-", "-", "1", "0">>
  /\ ctor.err = "ok"
  /\ it.server_cursor = <<"a", "-">>
  /\ it.batch_cursor = 10

\* ------------------------------------------------------------- C13
\* A supplied cursor string that is empty, holds no '-', has nothing to the
\* left of its last '-', or has no integer to the right of it.
Malformed(c) ==
  /\ c # None
  /\ \/ c = <<>>
     \/ LastDash(c) = 0
     \/ rpartition(c).head = <<>>
     \/ ~int(rpartition(c).tail).ok

\* C13: a constructor call with a malformed cursor string raises ValueError
\* (the InvalidArgument of the class).
C13_MalformedCursorRejected ==
  (ctor.phase = "made" /\ Malformed(ctor.cursor)) => ctor.err = "ValueError"

\* ------------------------------------------------------------- C14
\* C14: a constructor call whose params hold the key 'cursor' or the key
\* 'limit' raises ValueError (the InvalidArgument of the class), and no
\* constructor call, whether it returns or raises, issues a request.
C14_ReservedParamsAndLazy ==
  ctor.phase = "made"
    => /\ ("cursor" \in DOMAIN ctor.params \/ "limit" \in DOMAIN ctor.params)
            => ctor.err = "ValueError"
       /\ ctor.reqs = <<>>
       /\ nfetch = 0

\* A call with a well-formed cursor string whose params hold 'limit' next
\* to a filter: it raises because of the key alone.
C14_Witness ==
  /\ ctor.phase = "made"
  /\ DOMAIN ctor.params = {"filter", "limit"}
  /\ ctor.cursor = <<"a", "-", "7">>
  /\ ctor.err = "ValueError"
  /\ ctor.reqs = <<>>

C16_NoPopFromEmpty ==
  nops > 0
    => \/ last.kind = "item"
       \/ IsEnd(last.kind)
       \/ last.kind = "return"
       \/ IsError(last.kind)

\* ------------------------------------------------------------- C17
\* C17: on an instance with limit L >= 1 that has produced L items, no
\* operation of any of the four surfaces issues a request or produces an
\* item: the records left in the buffer stay there.
C17_NoFetchPastLimit ==
  [][(it.limit >= 1 /\ it.count >= it.limit /\ resumed' = resumed)
       => /\ sent' = <<>>
          /\ hist' = hist
          /\ it' = it]_vars

\* The limit was reached inside the first of two pages, and a generator
\* made afterwards has returned at once: a record is left in the buffer and
\* the second page was never asked for.
C17_Witness ==
  /\ it.limit = 1
  /\ it.count = 1
  /\ Len(it.items) = 1
  /\ Truthy(it.server_cursor)
  /\ manual
  /\ last.op = "aiter"
  /\ last.kind = "return"
  /\ nfetch = 1
  /\ sent = <<>>

\* ------------------------------------------------------------- C18
\* C18: as long as no task has started an operation on the instance while an
\* operation of another task was suspended in a fetch, no record is produced
\* twice. (That operations that do overlap produce a record twice is what
\* C18_Witness reaches.)
C18_OverlapUnsafe ==
  ~race.overlapped => NoDuplicates(hist)

\* Two tasks were suspended in a fetch of the same page at the same time,
\* the response of the later one has replaced the buffer that the earlier
\* one installed, and one record was produced to both tasks.
C18_Witness ==
  /\ race.overlapped
  /\ race.same_page
  /\ race.replaced
  /\ tasks[1].got \cap tasks[2].got # {}
  /\ ~NoDuplicates(hist)

\* ------------------------------------------------------------- C19
\* The server cursor a request is to carry: meta.cursor of the latest
\* successful response; before any, the server-cursor part of the cursor a
\* resumed instance was constructed with; None for no 'cursor' key.
CursorDue ==
  IF nfetch > 0 THEN lastmeta
  ELSE IF resumed /\ rs.from # None THEN rpartition(rs.from).head
  ELSE None

\* q is the mapping ps with 'cursor' = c added unless c is None, and with
\* 'limit' = bs added unless bs is 0.
IsRequestFor(q, ps, c, bs) ==
  /\ DOMAIN q = DOMAIN ps \cup (IF c # None THEN {"cursor"} ELSE {})
                          \cup (IF bs # 0 THEN {"limit"} ELSE {})
  /\ \A k \in DOMAIN ps : q[k] = ps[k]
  /\ c # None => q["cursor"] = c
  /\ bs # 0 => q["limit"] = bs

\* C19: every request of a step carries the params the instance was
\* constructed with, plus 'cursor' = the server cursor that is due (for the
\* second request of a step, meta.cursor of the first one's response), plus
\* 'limit' = batch_size exactly when batch_size is not 0; and a step leaves
\* the stored params as they were.
C19_RequestParams ==
  [][resumed' = resumed
       => /\ it'.params = it.params
          /\ \A i \in 1..Len(sent') :
               IsRequestFor(sent'[i].params, it.params,
                            IF i = 1 THEN CursorDue ELSE sent'[i - 1].meta,
                            it.batch_size)]_vars

\* A refill in the middle of the sequence: the request for the second page
\* carries the filter, the cursor of the first page's response and the limit.
C19_Witness ==
  /\ Len(sent) = 1
  /\ sent[1].err = "ok"
  /\ sent[1].page = 2
  /\ DOMAIN sent[1].params = {"cursor", "filter", "limit"}
  /\ sent[1].params["cursor"] = Tok(1)
  /\ sent[1].params["limit"] = it.batch_size
  /\ it.params = put(NoParams, "filter", <<"a">>)

\* ------------------------------------------------------------- C20
\* C20: on an instance with limit L >= 1, _count <= L in every state that
\* manual steps and generator steps, blocking and async, in any order can
\* reach, and no step of the instance makes _count smaller.
C20_LimitInvariant ==
  /\ [](it.limit >= 1 => it.count <= it.limit)
  /\ [][resumed' = resumed => it'.count >= it.count]_vars

\* The limit was reached across the page boundary by a manual step and
\* generators of both kinds, and a later manual step has signaled the end.
C20_Witness ==
  /\ it.limit = 2
  /\ it.count = 2
  /\ pages[1] = 1
  /\ curpage = 2
  /\ manual
  /\ runs = 2
  /\ IsManual(last.op)
  /\ IsEnd(last.kind)

====
